---- MODULE Spec2Model ----
(***************************************************************************)
(* A model of the streamtune/acl authorization engine: the permission      *)
(* bitmask, the Sid implementations, the Acl with its entry list, the      *)
(* permission checker (checker.Check) with its recursion into parent       *)
(* Acls, the mutation gate (authorizer.Authorize), the Acl mutators and    *)
(* the dual-keyed cache (defaultCache) with its read/write lock.           *)
(***************************************************************************)
EXTENDS Integers, Sequences, FiniteSets, TLC

VARIABLES
    acls,       \* the Acl objects: owner, parent, entries, inherits, loaded sids
    last,       \* the last call made and what it returned
    cache,      \* the defaultCache: idCache and oidCache
    mu,         \* the sync.RWMutex embedded in the defaultCache
    goroutines  \* the callers of the cache running concurrently

cacheVars == <<cache, mu, goroutines>>
vars == <<acls, last, cache, mu, goroutines>>

(***************************************************************************)
(* Permission bitmask (package permission).                               *)
(***************************************************************************)
NoPermission == 0
ReadPermission == 2
WritePermission == 4
CreatePermisssion == 8
DeletePermission == 16
AdministrationPermission == 32

\* a & b on unsigned integers.
RECURSIVE BitAnd(_, _)
BitAnd(a, b) ==
    IF a = 0 \/ b = 0 THEN 0
    ELSE (a % 2) * (b % 2) + 2 * BitAnd(a \div 2, b \div 2)

\* func (p Permission) Match(other Permission) bool { return p&other != 0 }
Match(p, other) == BitAnd(p, other) # 0

(***************************************************************************)
(* Sids.  A Sid value is the dynamic type held by the interface plus the   *)
(* name.  The constructors of package sid return pointers:                 *)
(*   ForPrincipal/ForAuthority  -> *principal / *authority  (value         *)
(*                                 receivers, type assertion on the value  *)
(*                                 type)                                   *)
(*   NewPrincipal/NewAuthority  -> *Principal / *Authority  (pointer       *)
(*                                 receivers, assertion on the pointer     *)
(*                                 type)                                   *)
(***************************************************************************)
NilSid == [type |-> "nil", name |-> ""]

ForPrincipal(name) == [type |-> "*principal", name |-> name]
ForAuthority(name) == [type |-> "*authority", name |-> name]
NewPrincipal(name) == [type |-> "*Principal", name |-> name]
NewAuthority(name) == [type |-> "*Authority", name |-> name]

\* func (p principal) Equals(other Sid): other.(principal) succeeds only when
\* the interface holds a principal VALUE.
principalEquals(p, other) ==
    IF other.type = "principal" THEN p.name = other.name ELSE FALSE

\* func (a authority) Equals(other Sid): other.(authority).
authorityEquals(a, other) ==
    IF other.type = "authority" THEN a.name = other.name ELSE FALSE

\* func (p *Principal) Equals(other Sid): other.(*Principal).
PrincipalEquals(p, other) ==
    IF other.type = "*Principal" THEN p.name = other.name ELSE FALSE

\* func (a *Authority) Equals(other Sid): other.(*Authority).
AuthorityEquals(a, other) ==
    IF other.type = "*Authority" THEN a.name = other.name ELSE FALSE

\* Dynamic dispatch of s.Equals(other) on the receiver's type (a value
\* receiver is also reached through a pointer).
Equals(s, other) ==
    CASE s.type \in {"*principal", "principal"} -> principalEquals(s, other)
      [] s.type \in {"*authority", "authority"} -> authorityEquals(s, other)
      [] s.type = "*Principal" -> PrincipalEquals(s, other)
      [] s.type = "*Authority" -> AuthorityEquals(s, other)

(***************************************************************************)
(* Acl and Ace.                                                            *)
(***************************************************************************)
Nil == "nil"
AclIds == {"a1", "a2"}

\* func newAccessControlEntry(id, acl, sid, permission, granting, success, failure)
newAccessControlEntry(id, acl, sid, permission, granting, success, failure) ==
    [id |-> id, acl |-> acl, permission |-> permission, sid |-> sid,
     granting |-> granting, succes |-> success, failure |-> failure]

\* A nil slice of loaded sids ("all sids loaded").
NilSids == [isNil |-> TRUE, sids |-> <<>>]
SidSlice(s) == [isNil |-> FALSE, sids |-> s]

\* newAcl(id, oid, auth, checker, parent, loaded, inherits, owner): no entries.
newAcl(id, oid, parent, loaded, inherits, owner) ==
    [id |-> id, oid |-> oid, owner |-> owner, parent |-> parent, aces |-> <<>>,
     inherits |-> inherits, loaded |-> loaded]

\* Mutant of setPermission: the entry is also made a denying one.
setPermissionAndDeny(ace, permission) ==
    [ace EXCEPT !.permission = permission, !.granting = FALSE]
\* func (ace *accessControlEntry) setPermission(permission)
setPermission(ace, permission) == [ace EXCEPT !.permission = permission]
\* func (ace *accessControlEntry) setAuditSuccess(success bool)
setAuditSuccess(ace, success) == [ace EXCEPT !.succes = success]
\* func (ace *accessControlEntry) setAuditFailure(failure bool)
setAuditFailure(ace, failure) == [ace EXCEPT !.failure = failure]

\* func (acl *acl) GetEntries() []Ace: a copy of the entries, in stored order.
GetEntries(acl) == [k \in 1..Len(acl.aces) |-> acl.aces[k]]

\* Mutant of IsSidLoaded: the loaded-sids restriction is never looked at.
IsSidLoadedAlways(acl, sids) == TRUE

\* func (acl *acl) IsSidLoaded(sids []sid.Sid) bool
IsSidLoaded(acl, sids) ==
    IF acl.loaded.isNil \/ Len(sids) = 0 THEN TRUE
    ELSE \A i \in 1..Len(sids) :
            \E j \in 1..Len(acl.loaded.sids) : Equals(sids[i], acl.loaded.sids[j])

(***************************************************************************)
(* checker.Check and acl.IsGranted.                                        *)
(*                                                                         *)
(* The result of a call carries, besides (granted, err), the trace of the  *)
(* call: the Acls whose IsGranted was entered (calls), the Acls whose      *)
(* entries were evaluated by Check (checked), the (acl, permission, sid)   *)
(* pairs whose entry scan was run (scans, as indices into the requested    *)
(* permissions and sids) and the notifications given to the audit sink     *)
(* (audits).                                                               *)
(***************************************************************************)
ErrNone == "nil"
ErrSidUnloaded == "No all the requested Sid where loaded."
ErrNoEntry == "No entry found"
\* The recursion re-enters an Acl with the same arguments: it never returns
\* and the goroutine stack is exhausted (fatal error).
FatalStackOverflow == "fatal: stack overflow"

\* Mutant of FirstMatch: the last matching entry decides instead of the first.
RECURSIVE LastMatch(_, _, _, _)
LastMatch(aces, p, sid, i) ==
    IF i > Len(aces) THEN 0
    ELSE LET rest == LastMatch(aces, p, sid, i + 1)
         IN  IF rest # 0 THEN rest
             ELSE IF Match(aces[i].permission, p) /\ Equals(aces[i].sid, sid) THEN i
             ELSE 0

\* for _, ace := range aces { if ace.GetPermission().Match(p) &&
\* ace.GetSid().Equals(sid) {...} }: index of the first such entry, 0 if none.
RECURSIVE FirstMatch(_, _, _, _)
FirstMatch(aces, p, sid, i) ==
    IF i > Len(aces) THEN 0
    ELSE IF Match(aces[i].permission, p) /\ Equals(aces[i].sid, sid) THEN i
    ELSE FirstMatch(aces, p, sid, i + 1)

\* State of the loops of Check before any permission is examined.
CheckStart ==
    [returned |-> FALSE, firstRejection |-> 0, audits |-> <<>>, scans |-> <<>>]

\* Mutant of ScanNextSid: the next sid is always examined.
ScanNextSidAlways(matched) == TRUE

\* Value of scanNextSid when the entry scan for one (permission, sid) ends:
\* it is declared false and the only assignment sets it to false.
ScanNextSid(matched) == IF matched THEN FALSE ELSE FALSE

\* Mutant of IsGrantingMatch: any matching entry counts as a grant.
IsGrantingMatchAnyEntry(aces, m) == m # 0

\* if ace.IsGranting(): the entry found at index m (0: none) grants.
IsGrantingMatch(aces, m) == m # 0 /\ aces[m].granting

\* for _, sid := range sids { ... } for permission perms[i], from sids[j].
RECURSIVE SidLoop(_, _, _, _, _, _, _, _)
SidLoop(a, aces, perms, i, sids, admin, j, st) ==
    IF j > Len(sids) THEN st
    ELSE
      LET m  == FirstMatch(aces, perms[i], sids[j], 1)
          s1 == [st EXCEPT !.scans = Append(@, [acl |-> a, pi |-> i, si |-> j])]
      IN  IF IsGrantingMatch(aces, m)
          THEN [s1 EXCEPT !.returned = TRUE,
                          !.audits = IF ~admin
                                     THEN Append(@, [granted |-> TRUE, acl |-> a, index |-> m])
                                     ELSE @]
          ELSE
            LET s2 == IF m # 0 /\ s1.firstRejection = 0
                      THEN [s1 EXCEPT !.firstRejection = m]
                      ELSE s1
            IN  IF ~ScanNextSid(m # 0) THEN s2
                ELSE SidLoop(a, aces, perms, i, sids, admin, j + 1, s2)

\* Mutant of PermLoop: the first rejection ends the whole scan.
RECURSIVE PermLoopStopAtDeny(_, _, _, _, _, _, _)
PermLoopStopAtDeny(a, aces, perms, sids, admin, i, st) ==
    IF st.returned \/ st.firstRejection # 0 \/ i > Len(perms) THEN st
    ELSE PermLoopStopAtDeny(a, aces, perms, sids, admin, i + 1,
                            SidLoop(a, aces, perms, i, sids, admin, 1, st))

\* for _, p := range permissions { ... }, from permissions[i].
RECURSIVE PermLoop(_, _, _, _, _, _, _)
PermLoop(a, aces, perms, sids, admin, i, st) ==
    IF st.returned \/ i > Len(perms) THEN st
    ELSE PermLoop(a, aces, perms, sids, admin, i + 1,
                  SidLoop(a, aces, perms, i, sids, admin, 1, st))

\* Mutant of AfterLoops: the parent is consulted whatever the inheritance flag.
AfterLoopsAnyParent(acl, firstRejection) ==
    IF acl.parent # Nil THEN "parent" ELSE "error"

\* What Check does once the loops ended without a grant and the rejection
\* (if any) was audited: "parent" recurses into the parent, "error" returns
\* (false, "No entry found").
AfterLoops(acl, firstRejection) ==
    IF acl.parent # Nil /\ acl.inherits THEN "parent" ELSE "error"

\* Mutant of ParentCallAdmin: the parent is always asked with admin=false.
ParentCallAdminFalse(admin) == FALSE

\* The admin argument Check hands to parent.IsGranted(permissions, sids, admin).
ParentCallAdmin(admin) == admin

\* Mutant of EntryNotFound: an unmatched request is a plain deny.
EntryNotFoundAsDeny(a, scans, audits) ==
    [granted |-> FALSE, err |-> ErrNone, calls |-> <<>>, checked |-> <<a>>,
     scans |-> scans, audits |-> audits]

\* return false, errors.New("No entry found")
EntryNotFound(a, scans, audits) ==
    [granted |-> FALSE, err |-> ErrNoEntry, calls |-> <<>>, checked |-> <<a>>,
     scans |-> scans, audits |-> audits]

RECURSIVE IsGrantedIn(_, _, _, _, _, _)
\* func (c *checker) Check(acl, permissions, sids, admin) on Acl a of A;
\* visited are the Acls this call chain is already inside of.
Check(A, a, perms, sids, admin, visited) ==
    LET st == PermLoop(a, GetEntries(A[a]), perms, sids, admin, 1, CheckStart)
    IN  IF st.returned
        THEN [granted |-> TRUE, err |-> ErrNone, calls |-> <<>>, checked |-> <<a>>,
              scans |-> st.scans, audits |-> st.audits]
        ELSE
          LET audits == IF st.firstRejection # 0 /\ ~admin
                        THEN Append(st.audits, [granted |-> FALSE, acl |-> a,
                                                index |-> st.firstRejection])
                        ELSE st.audits
          IN  IF AfterLoops(A[a], st.firstRejection) = "parent"
              THEN LET r == IsGrantedIn(A, A[a].parent, perms, sids,
                                        ParentCallAdmin(admin), visited \cup {a})
                   IN  [granted |-> r.granted, err |-> r.err,
                        calls |-> r.calls, checked |-> <<a>> \o r.checked,
                        scans |-> st.scans \o r.scans, audits |-> audits \o r.audits]
              ELSE EntryNotFound(a, st.scans, audits)

\* func (acl *acl) IsGranted(permissions, sids, admin) on Acl a of A.
IsGrantedIn(A, a, perms, sids, admin, visited) ==
    IF a \in visited
    THEN [granted |-> FALSE, err |-> FatalStackOverflow, calls |-> <<a>>,
          checked |-> <<>>, scans |-> <<>>, audits |-> <<>>]
    ELSE IF ~IsSidLoaded(A[a], sids)
    THEN [granted |-> FALSE, err |-> ErrSidUnloaded, calls |-> <<a>>,
          checked |-> <<>>, scans |-> <<>>, audits |-> <<>>]
    ELSE LET r == Check(A, a, perms, sids, admin, visited)
         IN  [r EXCEPT !.calls = <<a>> \o @]

IsGranted(A, a, perms, sids, admin) == IsGrantedIn(A, a, perms, sids, admin, {})

(***************************************************************************)
(* The caller's identity: sid.Retrieve(ctx).                               *)
(***************************************************************************)
ErrNoContext == "Context is required to operate on acl."
ErrNoAuthentication == "No authentication object found on context"
ErrEmptyPrincipal == "Cannot create Sid from an empty principal"
ErrEmptyAuthority == "Cannot create Sid from an empty authority"
ErrUnsupportedChange == "Unsupported change type"
ErrPermissionDenied ==
    "Principal does not have required ACL permissions to perform required operation."
\* A method is called on a nil interface value: the call panics.
PanicNilDereference == "panic: nil pointer dereference"
PanicIndexOutOfRange == "panic: index out of range"

\* A context.Context: nil, or a context whose "Authentication" value is absent
\* (hasAuth = FALSE) or gives a principal name and authority names.
NilContext == [isNil |-> TRUE, hasAuth |-> FALSE, principal |-> "", authorities |-> <<>>]
Background == [isNil |-> FALSE, hasAuth |-> FALSE, principal |-> "", authorities |-> <<>>]
WithAuthentication(principal, authorities) ==
    [isNil |-> FALSE, hasAuth |-> TRUE, principal |-> principal, authorities |-> authorities]

\* make([]Sid, n): n nil interface values.
MakeSids(n) == [k \in 1..n |-> NilSid]

\* func (r *defaultRetriever) Retrieve(ctx): the slice is made with
\* len(authorities)+1 nil elements and the sids are appended after them.
defaultRetrieve(ctx) ==
    IF ~ctx.hasAuth THEN [err |-> ErrNoAuthentication, sids |-> <<>>]
    ELSE IF ctx.principal = "" THEN [err |-> ErrEmptyPrincipal, sids |-> <<>>]
    ELSE IF \E k \in 1..Len(ctx.authorities) : ctx.authorities[k] = ""
    THEN [err |-> ErrEmptyAuthority, sids |-> <<>>]
    ELSE [err |-> ErrNone,
          sids |-> MakeSids(Len(ctx.authorities) + 1)
                   \o <<ForPrincipal(ctx.principal)>>
                   \o [k \in 1..Len(ctx.authorities) |-> ForAuthority(ctx.authorities[k])]]

\* A Retriever installed in place of the default one (var DefaultRetriever):
\* the principal first, then one Authority sid per granted authority, built
\* with NewPrincipal/NewAuthority.
installedRetrieve(ctx) ==
    IF ~ctx.hasAuth THEN [err |-> ErrNoAuthentication, sids |-> <<>>]
    ELSE [err |-> ErrNone,
          sids |-> <<NewPrincipal(ctx.principal)>>
                   \o [k \in 1..Len(ctx.authorities) |-> NewAuthority(ctx.authorities[k])]]

\* func Retrieve(ctx) { return DefaultRetriever.Retrieve(ctx) }; a caller is
\* the context it passes and the Retriever in place when it calls.
Retrieve(caller) ==
    IF caller.retriever = "default" THEN defaultRetrieve(caller.ctx)
    ELSE installedRetrieve(caller.ctx)

(***************************************************************************)
(* authorizer.Authorize and NewAuthorizer.                                 *)
(***************************************************************************)
Ownership == 0
Auditing == 1
General == 2

RoleGeneral == "ROLE_GENERAL"
RoleAuditing == "ROLE_AUDITING"
RoleOwnership == "ROLE_OWNERSHIP"

\* NewAuthorizer(general, auditing, ownership): the sid made for ownership is
\* never stored in the map.
NewAuthorizer(general, auditing, ownership) ==
    [chg \in {General, Auditing} |->
        IF chg = General THEN ForAuthority(general) ELSE ForAuthority(auditing)]

authorizations == NewAuthorizer(RoleGeneral, RoleAuditing, RoleOwnership)

\* if ok, err := acl.IsGranted(permissions, sids, false); err != nil && ok
AdministrationAllows(r) == r.err # ErrNone /\ r.granted

\* func (a *authorizer) Authorize(ctx, acl, chg) error, for Acl a of A.
Authorize(A, a, caller, chg) ==
    IF caller.ctx.isNil THEN ErrNoContext
    ELSE
      LET got == Retrieve(caller) IN
      IF got.err # ErrNone THEN got.err
      ELSE IF Len(got.sids) = 0 THEN PanicIndexOutOfRange
      ELSE IF got.sids[1] = NilSid THEN PanicNilDereference
      ELSE IF Equals(got.sids[1], A[a].owner) /\ chg \in {General, Ownership} THEN ErrNone
      ELSE IF chg \notin DOMAIN authorizations THEN ErrUnsupportedChange
      ELSE IF \E k \in 1..Len(got.sids) : Equals(got.sids[k], authorizations[chg]) THEN ErrNone
      ELSE LET r == IsGranted(A, a, <<AdministrationPermission>>, got.sids, FALSE)
           IN  IF r.err = FatalStackOverflow THEN FatalStackOverflow
               ELSE IF AdministrationAllows(r) THEN ErrNone
               ELSE ErrPermissionDenied

(***************************************************************************)
(* The cache (cache.go).  A map is a function whose domain is the set of   *)
(* keys present; a cached Acl is known by its pointer (obj), its primary   *)
(* key GetID() and its object identity GetIdentity().                      *)
(***************************************************************************)
NilAcl == [obj |-> "nil", id |-> "nil", oid |-> "nil"]
GetID(acl) == acl.id
GetIdentity(acl) == acl.oid

\* make(map[...]MutableAcl)
MakeMap == [k \in {} |-> NilAcl]
\* m[k] = v
MapSet(m, k, v) == [x \in DOMAIN m \cup {k} |-> IF x = k THEN v ELSE m[x]]
\* delete(m, k)
MapDelete(m, k) == [x \in DOMAIN m \ {k} |-> m[x]]
\* acl, ok := m[k]
MapGet(m, k) ==
    IF k \in DOMAIN m THEN [acl |-> m[k], ok |-> TRUE] ELSE [acl |-> NilAcl, ok |-> FALSE]

\* func newDefaultCache() *defaultCache
newDefaultCache == [idCache |-> MakeMap, oidCache |-> MakeMap]

\* The two deletes of EvictFromCacheByID, in program order.
EvictByIDFirst(c, id) == [c EXCEPT !.idCache = MapDelete(@, id)]
EvictByIDSecond(c, acl) == [c EXCEPT !.oidCache = MapDelete(@, GetIdentity(acl))]
\* Mutant of AfterEvictByID: only the primary-key index is updated.
AfterEvictByIDOneIndex(c, id) == EvictByIDFirst(c, id)

\* The body of EvictFromCacheByID between Lock and Unlock.
AfterEvictByID(c, id) ==
    IF MapGet(c.idCache, id).ok
    THEN EvictByIDSecond(EvictByIDFirst(c, id), MapGet(c.idCache, id).acl)
    ELSE c

\* The two deletes of EvictFromCacheByOid, in program order.
EvictByOidFirst(c, oid) == [c EXCEPT !.oidCache = MapDelete(@, oid)]
EvictByOidSecond(c, acl) == [c EXCEPT !.idCache = MapDelete(@, GetID(acl))]
\* The body of EvictFromCacheByOid between Lock and Unlock.
AfterEvictByOid(c, oid) ==
    IF MapGet(c.oidCache, oid).ok
    THEN EvictByOidSecond(EvictByOidFirst(c, oid), MapGet(c.oidCache, oid).acl)
    ELSE c

\* The two assignments of PutInCache, in program order.
PutFirst(c, acl) == [c EXCEPT !.idCache = MapSet(@, GetID(acl), acl)]
PutSecond(c, acl) == [c EXCEPT !.oidCache = MapSet(@, GetIdentity(acl), acl)]
\* The body of PutInCache between Lock and Unlock.
AfterPut(c, acl) == PutSecond(PutFirst(c, acl), acl)

\* The two assignments of ClearCache, in program order.
ClearFirst(c) == [c EXCEPT !.idCache = MakeMap]
ClearSecond(c) == [c EXCEPT !.oidCache = MakeMap]
AfterClear(c) == ClearSecond(ClearFirst(c))

\* The bodies of GetFromCacheByID and GetFromCacheByOid.
LookupByID(c, id) == MapGet(c.idCache, id)
LookupByOid(c, oid) == MapGet(c.oidCache, oid)

\* sync.RWMutex: the goroutines holding the read lock, the one holding the
\* write lock, and the one that announced Lock() and waits for the readers
\* to leave (new readers wait behind it).
NoGoroutine == "none"
Unlocked == [readers |-> {}, writer |-> NoGoroutine, pending |-> NoGoroutine]

\* No goroutine uses the cache.
NoGoroutines == [g \in {} |-> [pc |-> "idle"]]

(***************************************************************************)
(* Bounds and input pools.                                                 *)
(***************************************************************************)
\* Largest number of entries held by all Acls together.
MaxAces == 2

S1 == NewPrincipal("alice")
S2 == NewPrincipal("bob")

\* Entries an Acl may hold: newAccessControlEntry(nil, acl, sid, permission,
\* granting, false, false), as InsertAce builds them.
AcePool(a) ==
    { newAccessControlEntry(Nil, a, s, p, g, FALSE, FALSE) :
        s \in {S1, S2}, p \in {ReadPermission, WritePermission}, g \in BOOLEAN }

SeqsUpTo(S, n) == UNION { [1..k -> S] : k \in 0..n }

\* Permission lists and sid lists a caller of IsGranted presents.
RequestPerms ==
    { <<>>, <<ReadPermission>>, <<WritePermission>>,
      <<ReadPermission, WritePermission>>,
      <<ReadPermission + WritePermission>> }
RequestSids ==
    { <<>>, <<S1>>, <<S2>>, <<S1, S2>>, <<ForPrincipal("bob")>> }

\* The loaded-sids argument of newAcl.
LoadedPool == { NilSids, SidSlice(<<S1>>) }

NoCall == [op |-> "none"]

(***************************************************************************)
(* Granting: the permission check applied to a chain a1 -> a2 of Acls      *)
(* drawn from the pools: a2 has no parent, a1 has a2 or no parent.         *)
(***************************************************************************)
GrantingInit ==
    /\ \E ca \in SeqsUpTo(AcePool("a1"), MaxAces), pa \in SeqsUpTo(AcePool("a2"), MaxAces),
          link \in {Nil, "a2"}, inh \in BOOLEAN, l1 \in LoadedPool, l2 \in LoadedPool :
          /\ Len(ca) + Len(pa) <= MaxAces
          /\ acls = [a \in AclIds |->
                      IF a = "a1"
                      THEN [newAcl("a1", "a1", link, l1, inh, S1) EXCEPT !.aces = ca]
                      ELSE [newAcl("a2", "a2", Nil, l2, FALSE, S1) EXCEPT !.aces = pa]]
    /\ last = NoCall
    /\ cache = newDefaultCache
    /\ mu = Unlocked
    /\ goroutines = NoGoroutines

\* Mutant of AfterIsGranted: the call uses up the entries of the Acl.
AfterIsGrantedEntriesDropped(A, a) == [A EXCEPT ![a].aces = <<>>]

\* The Acls once a.IsGranted returned: IsGranted, IsSidLoaded and Check read
\* the Acl through its getters, GetEntries hands out a copy of the entry list,
\* and none of them assigns a field of an Acl or of an entry.
AfterIsGranted(A, a) == A

\* One call acl.IsGranted(permissions, sids, admin); the Acls are only read.
CallIsGranted(a, perms, sids, admin) ==
    /\ last = NoCall
    /\ last' = [op |-> "IsGranted", acl |-> a, perms |-> perms, sids |-> sids,
                admin |-> admin, res |-> IsGranted(acls, a, perms, sids, admin)]
    /\ acls' = AfterIsGranted(acls, a)
    /\ UNCHANGED cacheVars

\* The calls are made on the head a1 of the chain.
GrantingNext ==
    \E perms \in RequestPerms, sids \in RequestSids, admin \in BOOLEAN :
        CallIsGranted("a1", perms, sids, admin)

Granting == GrantingInit /\ [][GrantingNext]_vars

(***************************************************************************)
(* Repeated: IsGranted called again and again on the same chain, whose     *)
(* Acls load every sid.  last also keeps the call made before and what it  *)
(* returned.                                                               *)
(***************************************************************************)
RepeatPerms == { <<ReadPermission, WritePermission>> }
RepeatSids == { <<S1>>, <<S1, S2>> }

RepeatedInit ==
    /\ GrantingInit
    /\ \A a \in AclIds : acls[a].loaded.isNil

\* The call without the record of the call before it.
Earlier(call) ==
    IF call.op = "none" THEN call
    ELSE [op |-> call.op, acl |-> call.acl, perms |-> call.perms, sids |-> call.sids,
          admin |-> call.admin, res |-> call.res]

\* One more call acl.IsGranted(permissions, sids, admin).
CallIsGrantedAgain(a, perms, sids, admin) ==
    /\ last' = [op |-> "IsGranted", acl |-> a, perms |-> perms, sids |-> sids,
                admin |-> admin, res |-> IsGranted(acls, a, perms, sids, admin),
                before |-> Earlier(last)]
    /\ acls' = AfterIsGranted(acls, a)
    /\ UNCHANGED cacheVars

RepeatedNext ==
    \E perms \in RepeatPerms, sids \in RepeatSids, admin \in BOOLEAN :
        CallIsGrantedAgain("a1", perms, sids, admin)

Repeated == RepeatedInit /\ [][RepeatedNext]_vars

(***************************************************************************)
(* The Acl mutators.  Two Acls are created empty by newAcl, owned by       *)
(* alice, and changed only through the mutators; last records the call     *)
(* made and the error it returned.                                         *)
(***************************************************************************)
ErrInvalidIndex == "Invalid index for ACE creation"
ErrIndexNegative == "index must be greater thant or equal to zero"
ErrIndexTooLarge == "index must refer to an index of Ace list"
ErrSelfParent == "Cannot be the parent of yourself"

\* Who calls: the context handed to the mutator and the Retriever in place.
Callers ==
    { [ctx |-> NilContext, retriever |-> "default"],
      [ctx |-> WithAuthentication("alice", <<>>), retriever |-> "default"],
      [ctx |-> WithAuthentication("alice", <<>>), retriever |-> "installed"],
      [ctx |-> WithAuthentication("bob", <<>>), retriever |-> "installed"],
      [ctx |-> WithAuthentication("carol", <<RoleGeneral, RoleAuditing, RoleOwnership>>),
       retriever |-> "installed"] }

\* Arguments the mutators are called with.  The entries are made on a1; a2 is
\* the other Acl, which a1 can be given as parent and which can be given a1.
Receivers == {"a1"}
InsertPerms == {AdministrationPermission}
UpdatePerms == {ReadPermission}
InsertSids == {S2}
OwnerPool == {S1, S2}
AuditFlags == {<<TRUE, FALSE>>}

TotalAces(A) == Len(A["a1"].aces) + Len(A["a2"].aces)
\* Indexes handed to InsertAce (len is a valid position) and to the others.
InsertIndexes(A, a) == -1 .. (Len(A[a].aces) + 1)
Indexes(A, a) == -1 .. Len(A[a].aces)

Init ==
    /\ acls = [a \in AclIds |-> newAcl(a, a, Nil, NilSids, TRUE, S1)]
    /\ last = NoCall
    /\ cache = newDefaultCache
    /\ mu = Unlocked
    /\ goroutines = NoGoroutines

\* Mutant of verifyIndexExists: the index one past the last entry is accepted.
verifyIndexExistsUpToLen(acl, index) ==
    IF index < 0 THEN ErrIndexNegative
    ELSE IF index > Len(acl.aces) THEN ErrIndexTooLarge
    ELSE ErrNone

\* func (acl *acl) verifyIndexExists(index int) error
verifyIndexExists(acl, index) ==
    IF index < 0 THEN ErrIndexNegative
    ELSE IF index >= Len(acl.aces) THEN ErrIndexTooLarge
    ELSE ErrNone

\* Mutant of InsertAt: the entry is appended whatever the index.
InsertAtEnd(aces, index, ace) == Append(aces, ace)

\* append(aces[:index], append([]Ace{ace}, aces[index:]...)...), index from 0.
InsertAt(aces, index, ace) ==
    SubSeq(aces, 1, index) \o <<ace>> \o SubSeq(aces, index + 1, Len(aces))

\* Mutant of RemoveAt: the first entry is removed whatever the index.
RemoveFirst(aces, index) == SubSeq(aces, 2, Len(aces))

\* Mutant of RemoveAt: the last entry is removed whatever the index.
RemoveLast(aces, index) == SubSeq(aces, 1, Len(aces) - 1)

\* append(aces[:index], aces[index+1:]...), index from 0.
RemoveAt(aces, index) ==
    SubSeq(aces, 1, index) \o SubSeq(aces, index + 2, Len(aces))

Returned(op, a, caller, index, arg, err) ==
    /\ last' = [op |-> op, acl |-> a, caller |-> caller, index |-> index,
                arg |-> arg, err |-> err]
    /\ UNCHANGED cacheVars

\* func (acl *acl) InsertAce(ctx, index, permission, sid, granting) error
InsertAce(a, caller, index, permission, sid, granting) ==
    /\ TotalAces(acls) < MaxAces
    /\ \E gate \in {Authorize(acls, a, caller, General)},
          arg \in {[permission |-> permission, sid |-> sid, granting |-> granting]} :
         IF gate # ErrNone
         THEN Returned("InsertAce", a, caller, index, arg, gate) /\ UNCHANGED acls
         ELSE IF index < 0 \/ index > Len(acls[a].aces)
         THEN Returned("InsertAce", a, caller, index, arg, ErrInvalidIndex)
              /\ UNCHANGED acls
         ELSE /\ acls' = [acls EXCEPT ![a].aces =
                            InsertAt(@, index,
                              newAccessControlEntry(Nil, a, sid, permission, granting,
                                                    FALSE, FALSE))]
              /\ Returned("InsertAce", a, caller, index, arg, ErrNone)

\* func (acl *acl) UpdateAce(ctx, index, permission) error
UpdateAce(a, caller, index, permission) ==
    \E gate \in {Authorize(acls, a, caller, General)} :
        IF gate # ErrNone
        THEN Returned("UpdateAce", a, caller, index, permission, gate) /\ UNCHANGED acls
        ELSE IF verifyIndexExists(acls[a], index) # ErrNone
        THEN Returned("UpdateAce", a, caller, index, permission,
                      verifyIndexExists(acls[a], index))
             /\ UNCHANGED acls
        ELSE /\ acls' = [acls EXCEPT ![a].aces[index + 1] = setPermission(@, permission)]
             /\ Returned("UpdateAce", a, caller, index, permission, ErrNone)

\* func (acl *acl) DeleteAce(ctx, index) error
DeleteAce(a, caller, index) ==
    \E gate \in {Authorize(acls, a, caller, General)} :
        IF gate # ErrNone
        THEN Returned("DeleteAce", a, caller, index, Nil, gate) /\ UNCHANGED acls
        ELSE IF verifyIndexExists(acls[a], index) # ErrNone
        THEN Returned("DeleteAce", a, caller, index, Nil, verifyIndexExists(acls[a], index))
             /\ UNCHANGED acls
        ELSE /\ acls' = [acls EXCEPT ![a].aces = RemoveAt(@, index)]
             /\ Returned("DeleteAce", a, caller, index, Nil, ErrNone)

\* func (acl *acl) UpdateAuditing(ctx, index, succes, failure) error
UpdateAuditing(a, caller, index, succes, failure) ==
    \E gate \in {Authorize(acls, a, caller, Auditing)} :
        IF gate # ErrNone
        THEN Returned("UpdateAuditing", a, caller, index, <<succes, failure>>, gate)
             /\ UNCHANGED acls
        ELSE IF verifyIndexExists(acls[a], index) # ErrNone
        THEN Returned("UpdateAuditing", a, caller, index, <<succes, failure>>,
                      verifyIndexExists(acls[a], index))
             /\ UNCHANGED acls
        ELSE /\ acls' = [acls EXCEPT ![a].aces[index + 1] =
                                        setAuditFailure(setAuditSuccess(@, succes), failure)]
             /\ Returned("UpdateAuditing", a, caller, index, <<succes, failure>>, ErrNone)

\* acl.GetEntries() called from outside; the Acl is only read.
CallGetEntries(a) ==
    /\ last' = [op |-> "GetEntries", acl |-> a, ret |-> GetEntries(acls[a])]
    /\ UNCHANGED <<acls, cacheVars>>

\* func (acl *acl) SetEntriesInheriting(ctx, entriesInheriting) error
SetEntriesInheriting(a, caller, entriesInheriting) ==
    \E gate \in {Authorize(acls, a, caller, General)} :
        IF gate # ErrNone
        THEN Returned("SetEntriesInheriting", a, caller, 0, entriesInheriting, gate)
             /\ UNCHANGED acls
        ELSE /\ acls' = [acls EXCEPT ![a].inherits = entriesInheriting]
             /\ Returned("SetEntriesInheriting", a, caller, 0, entriesInheriting, ErrNone)

\* func (acl *acl) SetOwner(ctx, newOwner) error
SetOwner(a, caller, newOwner) ==
    \E gate \in {Authorize(acls, a, caller, Ownership)} :
        IF gate # ErrNone
        THEN Returned("SetOwner", a, caller, 0, newOwner, gate) /\ UNCHANGED acls
        ELSE /\ acls' = [acls EXCEPT ![a].owner = newOwner]
             /\ Returned("SetOwner", a, caller, 0, newOwner, ErrNone)

\* Mutant of IsSelfParent: no parent is refused.
IsSelfParentNever(a, newParent) == FALSE

\* if newParent != nil && acl == newParent
IsSelfParent(a, newParent) == newParent # Nil /\ a = newParent

\* func (acl *acl) SetParent(ctx, newParent) error
SetParent(a, caller, newParent) ==
    \E gate \in {Authorize(acls, a, caller, General)} :
        IF gate # ErrNone
        THEN Returned("SetParent", a, caller, 0, newParent, gate) /\ UNCHANGED acls
        ELSE IF IsSelfParent(a, newParent)
        THEN Returned("SetParent", a, caller, 0, newParent, ErrSelfParent) /\ UNCHANGED acls
        ELSE /\ acls' = [acls EXCEPT ![a].parent = newParent]
             /\ Returned("SetParent", a, caller, 0, newParent, ErrNone)

Next ==
    \/ \E caller \in Callers :
          \/ \E a \in Receivers :
              \/ \E index \in InsertIndexes(acls, a), permission \in InsertPerms,
                    sid \in InsertSids, granting \in BOOLEAN :
                      InsertAce(a, caller, index, permission, sid, granting)
              \/ \E index \in Indexes(acls, a), permission \in UpdatePerms :
                      UpdateAce(a, caller, index, permission)
              \/ \E index \in Indexes(acls, a) : DeleteAce(a, caller, index)
              \/ \E index \in Indexes(acls, a), flags \in AuditFlags :
                      UpdateAuditing(a, caller, index, flags[1], flags[2])
              \/ \E entriesInheriting \in BOOLEAN :
                      SetEntriesInheriting(a, caller, entriesInheriting)
              \/ \E newOwner \in OwnerPool : SetOwner(a, caller, newOwner)
          \/ \E a \in AclIds, newParent \in AclIds \cup {Nil} :
                SetParent(a, caller, newParent)
    \/ \E a \in Receivers : CallGetEntries(a)

Spec == Init /\ [][Next]_vars

(***************************************************************************)
(* The entry list under its owner: the calls that read and change the      *)
(* entries of a1, all made by the owner, whom the gate lets through.       *)
(***************************************************************************)
OwnerCaller == [ctx |-> WithAuthentication("alice", <<>>), retriever |-> "installed"]
EntryPerms == {ReadPermission, AdministrationPermission}
EntrySids == {S1, S2}

EntriesNext ==
    \/ \E index \in InsertIndexes(acls, "a1"), permission \in EntryPerms,
          sid \in EntrySids, granting \in BOOLEAN :
            InsertAce("a1", OwnerCaller, index, permission, sid, granting)
    \/ \E index \in Indexes(acls, "a1"), permission \in EntryPerms :
            UpdateAce("a1", OwnerCaller, index, permission)
    \/ \E index \in Indexes(acls, "a1") : DeleteAce("a1", OwnerCaller, index)
    \/ \E index \in Indexes(acls, "a1"), flags \in AuditFlags :
            UpdateAuditing("a1", OwnerCaller, index, flags[1], flags[2])
    \/ CallGetEntries("a1")

Entries == Init /\ [][EntriesNext]_vars

(***************************************************************************)
(* The Acls under their owner: every mutator, called by the owner alice    *)
(* with the installed Retriever.                                           *)
(***************************************************************************)
ByOwnerNext ==
    \/ \E a \in Receivers :
          \/ \E index \in InsertIndexes(acls, a), permission \in InsertPerms,
                sid \in InsertSids, granting \in BOOLEAN :
                  InsertAce(a, OwnerCaller, index, permission, sid, granting)
          \/ \E index \in Indexes(acls, a), permission \in UpdatePerms :
                  UpdateAce(a, OwnerCaller, index, permission)
          \/ \E index \in Indexes(acls, a) : DeleteAce(a, OwnerCaller, index)
          \/ \E index \in Indexes(acls, a), flags \in AuditFlags :
                  UpdateAuditing(a, OwnerCaller, index, flags[1], flags[2])
          \/ \E entriesInheriting \in BOOLEAN :
                  SetEntriesInheriting(a, OwnerCaller, entriesInheriting)
          \/ \E newOwner \in OwnerPool : SetOwner(a, OwnerCaller, newOwner)
          \/ CallGetEntries(a)
    \/ \E a \in AclIds, newParent \in AclIds \cup {Nil} :
          SetParent(a, OwnerCaller, newParent)

ByOwner == Init /\ [][ByOwnerNext]_vars

(***************************************************************************)
(* Vocabulary of the properties of one IsGranted call, stated on the       *)
(* entries themselves.                                                     *)
(***************************************************************************)
Called == last.op = "IsGranted"

Flags == {1, 2, 4, 8, 16, 32}
HasBit(p, f) == (p \div f) % 2 = 1
\* The two permissions share a set bit.
Overlaps(p, q) == \E f \in Flags : HasBit(p, f) /\ HasBit(q, f)

\* Indices of the entries matching (p, s): permission overlaps, sid equal.
MatchSet(aces, p, s) ==
    { k \in 1..Len(aces) : Overlaps(aces[k].permission, p) /\ Equals(aces[k].sid, s) }
HasMatch(aces, p, s) == MatchSet(aces, p, s) # {}
FirstOf(aces, p, s) ==
    CHOOSE k \in MatchSet(aces, p, s) : \A l \in MatchSet(aces, p, s) : k <= l
\* The first matching entry in stored order exists and grants / denies.
GrantingPair(aces, p, s) == HasMatch(aces, p, s) /\ aces[FirstOf(aces, p, s)].granting
DenyingPair(aces, p, s) == HasMatch(aces, p, s) /\ ~aces[FirstOf(aces, p, s)].granting

\* The k-th pair the last call evaluated.
Scan(k) == last.res.scans[k]
NScans == Len(last.res.scans)
ScanGrants(k) ==
    GrantingPair(acls[Scan(k).acl].aces, last.perms[Scan(k).pi], last.sids[Scan(k).si])
ScanDenies(k) ==
    DenyingPair(acls[Scan(k).acl].aces, last.perms[Scan(k).pi], last.sids[Scan(k).si])
ScanMisses(k) ==
    ~HasMatch(acls[Scan(k).acl].aces, last.perms[Scan(k).pi], last.sids[Scan(k).si])
\* Scans of the Acl the call was made on.
OwnScans == { k \in 1..NScans : Scan(k).acl = last.acl }

\* No entry of Acl a matches any requested (permission, sid) pair.
NoLocalMatch(a, perms, sids) ==
    \A i \in 1..Len(perms), j \in 1..Len(sids) : ~HasMatch(acls[a].aces, perms[i], sids[j])

\* Acl a is restricted to loaded sids and some requested sid is none of them.
Unloaded(a, sids) ==
    /\ ~acls[a].loaded.isNil
    /\ \E i \in 1..Len(sids) :
          \A j \in 1..Len(acls[a].loaded.sids) : ~Equals(sids[i], acls[a].loaded.sids[j])

\* The parent's IsGranted was entered by the last call.
ParentConsulted == Len(last.res.calls) > 1

(***************************************************************************)
(* C1: when the scan reaches a (permission, sid) pair whose first matching *)
(* entry grants, the call returns (true, nil) there: that pair is the last *)
(* one evaluated and no further Acl is entered.                            *)
(***************************************************************************)
C1_GrantReturnsAtOnce ==
    Called =>
      \A k \in 1..NScans :
        ScanGrants(k) =>
          /\ k = NScans
          /\ last.res.granted /\ last.res.err = ErrNone
          /\ last.res.calls[Len(last.res.calls)] = Scan(k).acl
          /\ last.res.checked[Len(last.res.checked)] = Scan(k).acl

\* A grant on the first pair of the head Acl while a second permission and
\* an inheriting parent were still there to evaluate.
C1_Witness ==
    /\ Called /\ last.res.granted /\ last.res.err = ErrNone
    /\ Len(last.perms) = 2 /\ NScans = 1 /\ ScanGrants(1)
    /\ acls[last.acl].parent # Nil /\ acls[last.acl].inherits
    /\ Len(acls[acls[last.acl].parent].aces) > 0
    /\ last.res.calls = <<last.acl>>

(***************************************************************************)
(* C2: a call that reaches no granting match but meets a denying entry     *)
(* returns (false, nil), a plain deny.                                     *)
(***************************************************************************)
C2_DenyIsPlainDeny ==
    ( /\ Called
      /\ \A k \in 1..NScans : ~ScanGrants(k)
      /\ \E k \in OwnScans : ScanDenies(k) )
    => (~last.res.granted /\ last.res.err = ErrNone)

(***************************************************************************)
(* C3: when a denying entry of the Acl matched, the result is deny and     *)
(* the parent is not consulted.                                            *)
(***************************************************************************)
C3_LocalDenyIsFinal ==
    ( /\ Called
      /\ \A k \in OwnScans : ~ScanGrants(k)
      /\ \E k \in OwnScans : ScanDenies(k) )
    => (~last.res.granted /\ ~ParentConsulted)

(***************************************************************************)
(* C4: when no entry matches the current (permission, sid) pair, the next  *)
(* sid is evaluated for the same permission; so a granting entry for the   *)
(* second requested sid yields a grant.                                    *)
(***************************************************************************)
C4_NextSidIsExamined ==
    Called =>
      /\ \A k \in 1..NScans :
            (ScanMisses(k) /\ Scan(k).si < Len(last.sids)) =>
              /\ k < NScans
              /\ Scan(k + 1) = [acl |-> Scan(k).acl, pi |-> Scan(k).pi, si |-> Scan(k).si + 1]
      /\ ( /\ Len(last.perms) = 1 /\ Len(last.sids) = 2
           /\ ~Unloaded(last.acl, last.sids)
           /\ Len(acls[last.acl].aces) = 1
           /\ ~HasMatch(acls[last.acl].aces, last.perms[1], last.sids[1])
           /\ GrantingPair(acls[last.acl].aces, last.perms[1], last.sids[2]) )
         => last.res.granted

(***************************************************************************)
(* C5: a denying match ends only the sid scan of its permission: the scan  *)
(* goes on with the next requested permission, and a granting match        *)
(* reached there yields (true, nil).                                       *)
(***************************************************************************)
C5_DenialIsProvisional ==
    Called =>
      /\ \A k \in 1..NScans :
            ScanDenies(k) =>
              /\ Scan(k).pi < Len(last.perms) =>
                    /\ k < NScans
                    /\ Scan(k + 1) = [acl |-> Scan(k).acl, pi |-> Scan(k).pi + 1, si |-> 1]
              /\ \A k2 \in (k + 1)..NScans :
                    ScanGrants(k2) => (last.res.granted /\ last.res.err = ErrNone)
      /\ ( /\ Len(last.perms) = 2 /\ Len(last.sids) >= 1
           /\ ~Unloaded(last.acl, last.sids)
           /\ DenyingPair(acls[last.acl].aces, last.perms[1], last.sids[1])
           /\ GrantingPair(acls[last.acl].aces, last.perms[2], last.sids[1]) )
         => (last.res.granted /\ last.res.err = ErrNone)

\* Permissions [P1, P2], a denying (S, P1) entry and a granting (S, P2) entry.
C5_Witness ==
    /\ Called /\ last.res.granted /\ last.res.err = ErrNone
    /\ Len(last.perms) = 2 /\ NScans = 2
    /\ ScanDenies(1) /\ ScanGrants(2)
    /\ Scan(1).acl = last.acl /\ Scan(2).acl = last.acl

(***************************************************************************)
(* C6: with a loaded-sids restriction that misses a requested sid, the     *)
(* call fails with the unloaded-Sid error before anything is evaluated:    *)
(* no entry scan, no audit, no parent.                                     *)
(***************************************************************************)
C6_UnloadedSidFailsFirst ==
    (Called /\ Unloaded(last.acl, last.sids)) =>
      /\ ~last.res.granted /\ last.res.err = ErrSidUnloaded
      /\ last.res.scans = <<>> /\ last.res.audits = <<>>
      /\ last.res.checked = <<>> /\ last.res.calls = <<last.acl>>

\* An unloaded sid asked of an Acl holding a granting entry for it and an
\* inheriting parent.
C6_Witness ==
    /\ Called /\ Unloaded(last.acl, last.sids)
    /\ Len(last.perms) > 0
    /\ \E i \in 1..Len(last.perms), j \in 1..Len(last.sids) :
          GrantingPair(acls[last.acl].aces, last.perms[i], last.sids[j])
    /\ acls[last.acl].parent # Nil /\ acls[last.acl].inherits
    /\ last.res.err = ErrSidUnloaded

(***************************************************************************)
(* C7, as stated: an Acl with no parent and no entry matching any          *)
(* requested pair returns the no-matching-entry error.                     *)
(***************************************************************************)
C7_Original ==
    ( /\ Called /\ acls[last.acl].parent = Nil
      /\ NoLocalMatch(last.acl, last.perms, last.sids) )
    => (~last.res.granted /\ last.res.err = ErrNoEntry)

(***************************************************************************)
(* C7, amended: an Acl with no parent, whose loaded-sids restriction (if   *)
(* any) covers every requested sid, and with no entry matching any         *)
(* requested pair, returns the no-matching-entry error.                    *)
(***************************************************************************)
C7_NoParentNoMatchIsError ==
    ( /\ Called /\ acls[last.acl].parent = Nil
      /\ ~Unloaded(last.acl, last.sids)
      /\ NoLocalMatch(last.acl, last.perms, last.sids) )
    => (~last.res.granted /\ last.res.err = ErrNoEntry)

\* The only entry grants Read to a sid; Write is asked for that sid.
C7_Witness ==
    /\ Called /\ acls[last.acl].parent = Nil
    /\ Len(acls[last.acl].aces) = 1 /\ acls[last.acl].aces[1].granting
    /\ acls[last.acl].aces[1].permission = ReadPermission
    /\ last.perms = <<WritePermission>>
    /\ last.sids = <<acls[last.acl].aces[1].sid>>
    /\ last.res.err = ErrNoEntry

(***************************************************************************)
(* C8, as stated: with entriesInheriting=false a request matching no local *)
(* entry never consults the parent and gets the no-matching-entry error.   *)
(***************************************************************************)
C8_Original ==
    ( /\ Called /\ ~acls[last.acl].inherits
      /\ NoLocalMatch(last.acl, last.perms, last.sids) )
    => (~ParentConsulted /\ ~last.res.granted /\ last.res.err = ErrNoEntry)

(***************************************************************************)
(* C8, amended: with entriesInheriting=false a request whose sids are all  *)
(* loaded and that matches no local entry never consults the parent and    *)
(* gets the no-matching-entry error.                                       *)
(***************************************************************************)
C8_NotInheritingIgnoresParent ==
    ( /\ Called /\ ~acls[last.acl].inherits
      /\ ~Unloaded(last.acl, last.sids)
      /\ NoLocalMatch(last.acl, last.perms, last.sids) )
    => (~ParentConsulted /\ ~last.res.granted /\ last.res.err = ErrNoEntry)

\* A parent is set and would grant the request, but inheritance is off.
C8_Witness ==
    /\ Called /\ ~acls[last.acl].inherits /\ acls[last.acl].parent # Nil
    /\ NoLocalMatch(last.acl, last.perms, last.sids)
    /\ IsGranted(acls, acls[last.acl].parent, last.perms, last.sids, last.admin).granted
    /\ last.res.err = ErrNoEntry /\ ~ParentConsulted

(***************************************************************************)
(* C9, as stated: with entriesInheriting=true and a parent, a request      *)
(* matching no local entry returns what the parent's own IsGranted returns *)
(* for the same (permissions, sids, admin): same granted, same error, same *)
(* audit notifications.                                                    *)
(***************************************************************************)
ParentAnswer == IsGranted(acls, acls[last.acl].parent, last.perms, last.sids, last.admin)

C9_Original ==
    ( /\ Called /\ acls[last.acl].inherits /\ acls[last.acl].parent # Nil
      /\ NoLocalMatch(last.acl, last.perms, last.sids) )
    => /\ last.res.granted = ParentAnswer.granted
       /\ last.res.err = ParentAnswer.err
       /\ last.res.audits = ParentAnswer.audits

(***************************************************************************)
(* C9, amended: with entriesInheriting=true and a parent, a request whose  *)
(* sids are all loaded in the Acl and that matches no local entry returns  *)
(* what the parent's own IsGranted returns for the same (permissions,      *)
(* sids, admin), the parent's unloaded-Sid check included.                 *)
(***************************************************************************)
C9_InheritingYieldsParentAnswer ==
    ( /\ Called /\ acls[last.acl].inherits /\ acls[last.acl].parent # Nil
      /\ ~Unloaded(last.acl, last.sids)
      /\ NoLocalMatch(last.acl, last.perms, last.sids) )
    => /\ last.res.granted = ParentAnswer.granted
       /\ last.res.err = ParentAnswer.err
       /\ last.res.audits = ParentAnswer.audits
       /\ last.res.calls = <<last.acl>> \o ParentAnswer.calls

\* The parent grants what the child has no entry for.
C9_Witness ==
    /\ Called /\ acls[last.acl].inherits /\ acls[last.acl].parent # Nil
    /\ Len(last.perms) > 0 /\ Len(last.sids) > 0
    /\ NoLocalMatch(last.acl, last.perms, last.sids)
    /\ last.res.granted /\ last.res.err = ErrNone
    /\ ParentConsulted

\* The parent refuses the request for an unloaded sid.
C9_WitnessParentUnloaded ==
    /\ Called /\ acls[last.acl].inherits /\ acls[last.acl].parent # Nil
    /\ ~Unloaded(last.acl, last.sids)
    /\ NoLocalMatch(last.acl, last.perms, last.sids)
    /\ last.res.err = ErrSidUnloaded

(***************************************************************************)
(* Vocabulary of the properties of one mutator call.                       *)
(***************************************************************************)
Mutators == {"InsertAce", "UpdateAce", "DeleteAce", "SetOwner", "SetParent",
             "SetEntriesInheriting", "UpdateAuditing"}

\* The change class each mutator asks the gate for.
ChangeOf(op) ==
    IF op = "SetOwner" THEN Ownership
    ELSE IF op = "UpdateAuditing" THEN Auditing
    ELSE General

\* The authority name configured for a change class.
RequiredRole(chg) ==
    IF chg = Ownership THEN RoleOwnership
    ELSE IF chg = Auditing THEN RoleAuditing
    ELSE RoleGeneral

IsOwner(A, a, caller) == caller.ctx.hasAuth /\ caller.ctx.principal = A[a].owner.name

HoldsRole(caller, role) ==
    \E k \in 1..Len(caller.ctx.authorities) : caller.ctx.authorities[k] = role

HoldsAdministration(A, a, caller) ==
    /\ Retrieve(caller).err = ErrNone
    /\ IsGranted(A, a, <<AdministrationPermission>>, Retrieve(caller).sids, FALSE).granted

\* An authenticated caller that is neither the owner of Acl a, nor a holder of
\* the authority of the change class, nor granted Administration by a.
Unprivileged(A, a, caller, chg) ==
    /\ ~caller.ctx.isNil
    /\ caller.ctx.hasAuth
    /\ ~IsOwner(A, a, caller)
    /\ ~HoldsRole(caller, RequiredRole(chg))
    /\ ~HoldsAdministration(A, a, caller)

\* C10: a caller that is not the owner, does not hold the authority of the
\* change class and is not granted Administration by the Acl gets the
\* permission-denied error from every mutator, and the Acl is left as it was.
C10_UnprivilegedIsDenied ==
    [][(last'.op \in Mutators
        /\ Unprivileged(acls, last'.acl, last'.caller, ChangeOf(last'.op)))
       => (last'.err = ErrPermissionDenied /\ acls' = acls)]_vars

\* Errors a mutator returns because the gate refused or failed, as opposed to
\* the errors of its own argument checks.
GateErrors ==
    {ErrNoContext, ErrNoAuthentication, ErrEmptyPrincipal, ErrEmptyAuthority,
     ErrUnsupportedChange, ErrPermissionDenied, PanicNilDereference,
     PanicIndexOutOfRange, FatalStackOverflow}

\* C11: the owner of an Acl is always let through the gate by InsertAce,
\* UpdateAce, DeleteAce, SetParent, SetEntriesInheriting and SetOwner on that
\* Acl (change classes General and Ownership), whatever the caller's
\* authorities and the Acl's entries.
C11_OwnerIsAllowed ==
    [][(last'.op \in Mutators \ {"UpdateAuditing"}
        /\ IsOwner(acls, last'.acl, last'.caller))
       => last'.err \notin GateErrors]_vars

\* C12: each of the change classes General, Ownership and Auditing has its
\* authority configured by NewAuthorizer, and a caller that is not the owner
\* but holds the authority of the class of the change is let through the gate;
\* in particular no mutator fails with the configuration error.
C12_AuthorityHolderIsAllowed ==
    [][(last'.op \in Mutators
        /\ ~IsOwner(acls, last'.acl, last'.caller)
        /\ HoldsRole(last'.caller, RequiredRole(ChangeOf(last'.op))))
       => (ChangeOf(last'.op) \in DOMAIN authorizations
           /\ last'.err \notin GateErrors)]_vars

\* The gate gets as far as the Administration evaluation for this call: the
\* identity was retrieved, the caller is neither the owner nor a holder of the
\* authority of the change class, and the class has an authority configured.
ReachesAdministration(A, a, caller, chg) ==
    /\ ~caller.ctx.isNil
    /\ Retrieve(caller).err = ErrNone
    /\ Len(Retrieve(caller).sids) > 0
    /\ Retrieve(caller).sids[1] # NilSid
    /\ ~IsOwner(A, a, caller)
    /\ ~HoldsRole(caller, RequiredRole(chg))
    /\ chg \in DOMAIN authorizations

\* C13: a caller that is neither the owner nor a holder of the configured
\* authority is let through the gate exactly when
\* IsGranted([Administration], callerSids, false) on the Acl itself grants;
\* when it denies or fails the mutator returns the permission error.
C13_AdministrationDecides ==
    [][(last'.op \in Mutators
        /\ ReachesAdministration(acls, last'.acl, last'.caller, ChangeOf(last'.op)))
       => IF HoldsAdministration(acls, last'.acl, last'.caller)
          THEN last'.err \notin GateErrors
          ELSE last'.err = ErrPermissionDenied]_vars

(***************************************************************************)
(* C14: a request of two permissions [P1, P2] and two sids [S1, S2] on an  *)
(* Acl whose first entry for (S1, P1) denies and whose first entry for     *)
(* (S2, P1) grants.                                                        *)
(***************************************************************************)
DenyThenGrantRequest ==
    /\ Called
    /\ Len(last.perms) = 2
    /\ Len(last.sids) = 2
    /\ ~Unloaded(last.acl, last.sids)
    /\ DenyingPair(acls[last.acl].aces, last.perms[1], last.sids[1])
    /\ GrantingPair(acls[last.acl].aces, last.perms[1], last.sids[2])

\* C14 as stated: the granting (S2, P1) entry wins and the call returns grant,
\* whatever the order of the two entries in the list.
C14_Original ==
    DenyThenGrantRequest => (last.res.granted /\ last.res.err = ErrNone)

\* C14 amended: the denying first match for (S1, P1) ends the scan of P1, so
\* the pair (S2, P1) is never evaluated on this Acl and its granting entry
\* gives no grant, whatever the order of the two entries in the list.
C14_DenyOfFirstSidEndsPermission ==
    DenyThenGrantRequest =>
        \A k \in OwnScans : ~(Scan(k).pi = 1 /\ Scan(k).si = 2)

C14_Witness ==
    /\ DenyThenGrantRequest
    /\ acls[last.acl].aces[1].granting
    /\ ~last.res.granted

(***************************************************************************)
(* The cache used by one caller at a time: each call runs from Lock to     *)
(* Unlock without another call in between.  last records the call, what it *)
(* returned and the call made before it.                                   *)
(***************************************************************************)
\* The Acls handed to the cache: x and y share the primary key, x and z share
\* the object identity.
CacheAcls ==
    { [obj |-> "x", id |-> "id1", oid |-> "o1"],
      [obj |-> "y", id |-> "id1", oid |-> "o2"],
      [obj |-> "z", id |-> "id2", oid |-> "o1"] }
Ids == {"id1", "id2"}
Oids == {"o1", "o2"}

NotFound == [acl |-> NilAcl, ok |-> FALSE]
Brief(call) == [op |-> call.op, arg |-> IF call.op = "none" THEN "nil" ELSE call.arg]
CacheCall(op, arg, ret) == last' = [op |-> op, arg |-> arg, ret |-> ret, prev |-> Brief(last)]

CacheInit ==
    /\ acls = [a \in AclIds |-> newAcl(a, a, Nil, NilSids, TRUE, S1)]
    /\ last = NoCall
    /\ cache = newDefaultCache
    /\ mu = Unlocked
    /\ goroutines = NoGoroutines

\* func (cache *defaultCache) PutInCache(acl MutableAcl)
PutInCache(acl) ==
    /\ cache' = AfterPut(cache, acl)
    /\ CacheCall("PutInCache", acl, NotFound)
    /\ UNCHANGED <<acls, mu, goroutines>>

\* func (cache *defaultCache) EvictFromCacheByID(id interface{})
EvictFromCacheByID(id) ==
    /\ cache' = AfterEvictByID(cache, id)
    /\ CacheCall("EvictFromCacheByID", id, NotFound)
    /\ UNCHANGED <<acls, mu, goroutines>>

\* func (cache *defaultCache) EvictFromCacheByOid(id oid.Oid)
EvictFromCacheByOid(oid) ==
    /\ cache' = AfterEvictByOid(cache, oid)
    /\ CacheCall("EvictFromCacheByOid", oid, NotFound)
    /\ UNCHANGED <<acls, mu, goroutines>>

\* func (cache *defaultCache) GetFromCacheByID(id interface{}) (MutableAcl, bool)
GetFromCacheByID(id) ==
    /\ CacheCall("GetFromCacheByID", id, LookupByID(cache, id))
    /\ UNCHANGED <<acls, cache, mu, goroutines>>

\* func (cache *defaultCache) GetFromCacheByOid(id oid.Oid) (MutableAcl, bool)
GetFromCacheByOid(oid) ==
    /\ CacheCall("GetFromCacheByOid", oid, LookupByOid(cache, oid))
    /\ UNCHANGED <<acls, cache, mu, goroutines>>

\* func (cache *defaultCache) ClearCache()
ClearCache ==
    /\ cache' = AfterClear(cache)
    /\ CacheCall("ClearCache", "nil", NotFound)
    /\ UNCHANGED <<acls, mu, goroutines>>

CacheNext ==
    \/ \E acl \in CacheAcls : PutInCache(acl)
    \/ \E id \in Ids : EvictFromCacheByID(id)
    \/ \E oid \in Oids : EvictFromCacheByOid(oid)
    \/ \E id \in Ids : GetFromCacheByID(id)
    \/ \E oid \in Oids : GetFromCacheByOid(oid)
    \/ ClearCache

CacheOps == CacheInit /\ [][CacheNext]_vars

(***************************************************************************)
(* C15: cache round trip.  Whatever the cache holds, PutInCache(a) makes   *)
(* both lookups of a's keys return (a, true); evicting a by either key     *)
(* right after makes both lookups return found=false; and evicting a key   *)
(* that is not cached leaves the cache as it is.                           *)
(***************************************************************************)
BothFound(c, a) ==
    /\ LookupByID(c, GetID(a)) = [acl |-> a, ok |-> TRUE]
    /\ LookupByOid(c, GetIdentity(a)) = [acl |-> a, ok |-> TRUE]
NeitherFound(c, a) ==
    /\ ~LookupByID(c, GetID(a)).ok
    /\ ~LookupByOid(c, GetIdentity(a)).ok

C15_CacheRoundTrip ==
    /\ \A a \in CacheAcls :
          /\ BothFound(AfterPut(cache, a), a)
          /\ NeitherFound(AfterEvictByID(AfterPut(cache, a), GetID(a)), a)
          /\ NeitherFound(AfterEvictByOid(AfterPut(cache, a), GetIdentity(a)), a)
    /\ \A id \in Ids : ~LookupByID(cache, id).ok => AfterEvictByID(cache, id) = cache
    /\ \A oid \in Oids : ~LookupByOid(cache, oid).ok => AfterEvictByOid(cache, oid) = cache
    /\ last.op = "PutInCache" => BothFound(cache, last.arg)
    /\ (last.op = "EvictFromCacheByID" /\ last.prev.op = "PutInCache"
        /\ last.arg = GetID(last.prev.arg)) => NeitherFound(cache, last.prev.arg)
    /\ (last.op = "EvictFromCacheByOid" /\ last.prev.op = "PutInCache"
        /\ last.arg = GetIdentity(last.prev.arg)) => NeitherFound(cache, last.prev.arg)

\* An Acl was put and then evicted by its primary key while another entry stays cached.
C15_Witness ==
    /\ last.op = "EvictFromCacheByID"
    /\ last.prev.op = "PutInCache"
    /\ last.arg = GetID(last.prev.arg)
    /\ NeitherFound(cache, last.prev.arg)
    /\ DOMAIN cache.oidCache # {}

(***************************************************************************)
(* C16: the two indices are in sync: an Acl is returned by the primary-key *)
(* index under its GetID() exactly when it is returned by the              *)
(* object-identity index under its GetIdentity().                          *)
(***************************************************************************)
InIdIndex(c, a) == LookupByID(c, GetID(a)) = [acl |-> a, ok |-> TRUE]
InOidIndex(c, a) == LookupByOid(c, GetIdentity(a)) = [acl |-> a, ok |-> TRUE]

C16_IndicesInSync ==
    \A a \in CacheAcls : InIdIndex(cache, a) <=> InOidIndex(cache, a)

(***************************************************************************)
(* The cache used by several goroutines at once.  A call is a sequence of  *)
(* steps: taking the lock, each statement between Lock and Unlock, and the *)
(* release.  Lock() first announces the writer (new readers then wait) and *)
(* returns when the readers that were inside have left.                    *)
(***************************************************************************)
Goroutines == {"g1", "g2", "g3"}

Idle == [pc |-> "idle", op |-> "none", arg |-> "nil", acl |-> NilAcl]

ReadOps == {"GetFromCacheByID", "GetFromCacheByOid"}
WriteOps == {"PutInCache", "EvictFromCacheByID", "EvictFromCacheByOid", "ClearCache"}

\* The calls a goroutine can make.
CacheCalls ==
    { [op |-> "PutInCache", arg |-> a] : a \in CacheAcls }
    \cup { [op |-> "EvictFromCacheByID", arg |-> id] : id \in Ids }
    \cup { [op |-> "EvictFromCacheByOid", arg |-> oid] : oid \in Oids }
    \cup { [op |-> "GetFromCacheByID", arg |-> id] : id \in Ids }
    \cup { [op |-> "GetFromCacheByOid", arg |-> oid] : oid \in Oids }
    \cup { [op |-> "ClearCache", arg |-> "nil"] }

ConcurrentInit ==
    /\ acls = [a \in AclIds |-> newAcl(a, a, Nil, NilSids, TRUE, S1)]
    /\ last = NoCall
    /\ cache = newDefaultCache
    /\ mu = Unlocked
    /\ goroutines = [g \in Goroutines |-> Idle]

\* Goroutine g enters one of the cache methods.
Call(g, call) ==
    /\ goroutines[g].pc = "idle"
    /\ goroutines' = [goroutines EXCEPT ![g] =
                        [pc |-> IF call.op \in ReadOps THEN "RLock" ELSE "Lock",
                         op |-> call.op, arg |-> call.arg, acl |-> NilAcl]]
    /\ UNCHANGED <<acls, last, cache, mu>>

\* cache.Lock(), first half: g becomes the pending writer.
Lock(g) ==
    /\ goroutines[g].pc = "Lock"
    /\ mu.writer = NoGoroutine
    /\ mu.pending = NoGoroutine
    /\ mu' = [mu EXCEPT !.pending = g]
    /\ goroutines' = [goroutines EXCEPT ![g].pc = "LockWait"]
    /\ UNCHANGED <<acls, last, cache>>

\* cache.Lock(), second half: the readers have left, g holds the write lock.
LockAcquire(g) ==
    /\ goroutines[g].pc = "LockWait"
    /\ mu.readers = {}
    /\ mu' = [mu EXCEPT !.pending = NoGoroutine, !.writer = g]
    /\ goroutines' = [goroutines EXCEPT ![g].pc =
                        IF goroutines[g].op \in {"EvictFromCacheByID", "EvictFromCacheByOid"}
                        THEN "lookup" ELSE "first"]
    /\ UNCHANGED <<acls, last, cache>>

\* Mutant of ReadLockFree: a reader only waits for a pending writer.
ReadLockFreeIgnoringWriter(m) == m.pending = NoGoroutine

\* RLock() returns when no goroutine holds or has announced the write lock.
ReadLockFree(m) == m.writer = NoGoroutine /\ m.pending = NoGoroutine

\* cache.RLock()
RLock(g) ==
    /\ goroutines[g].pc = "RLock"
    /\ ReadLockFree(mu)
    /\ mu' = [mu EXCEPT !.readers = @ \cup {g}]
    /\ goroutines' = [goroutines EXCEPT ![g].pc = "read"]
    /\ UNCHANGED <<acls, last, cache>>

\* if acl, ok := cache.idCache[id]; ok { ... } (or oidCache) of the evicts.
EvictLookup(g) ==
    /\ goroutines[g].pc = "lookup"
    /\ LET found == IF goroutines[g].op = "EvictFromCacheByID"
                    THEN LookupByID(cache, goroutines[g].arg)
                    ELSE LookupByOid(cache, goroutines[g].arg)
       IN  goroutines' = [goroutines EXCEPT ![g].acl = found.acl,
                                             ![g].pc = IF found.ok THEN "first" ELSE "Unlock"]
    /\ UNCHANGED <<acls, last, cache, mu>>

\* The first of the two index updates of a write.
FirstUpdate(g) ==
    /\ goroutines[g].pc = "first"
    /\ cache' = CASE goroutines[g].op = "PutInCache" -> PutFirst(cache, goroutines[g].arg)
                  [] goroutines[g].op = "EvictFromCacheByID" ->
                        EvictByIDFirst(cache, goroutines[g].arg)
                  [] goroutines[g].op = "EvictFromCacheByOid" ->
                        EvictByOidFirst(cache, goroutines[g].arg)
                  [] goroutines[g].op = "ClearCache" -> ClearFirst(cache)
    /\ goroutines' = [goroutines EXCEPT ![g].pc = "second"]
    /\ UNCHANGED <<acls, last, mu>>

\* The second of the two index updates of a write.
SecondUpdate(g) ==
    /\ goroutines[g].pc = "second"
    /\ cache' = CASE goroutines[g].op = "PutInCache" -> PutSecond(cache, goroutines[g].arg)
                  [] goroutines[g].op = "EvictFromCacheByID" ->
                        EvictByIDSecond(cache, goroutines[g].acl)
                  [] goroutines[g].op = "EvictFromCacheByOid" ->
                        EvictByOidSecond(cache, goroutines[g].acl)
                  [] goroutines[g].op = "ClearCache" -> ClearSecond(cache)
    /\ goroutines' = [goroutines EXCEPT ![g].pc = "Unlock"]
    /\ UNCHANGED <<acls, last, mu>>

\* cache.Unlock(); the method returns.
Unlock(g) ==
    /\ goroutines[g].pc = "Unlock"
    /\ mu' = [mu EXCEPT !.writer = NoGoroutine]
    /\ goroutines' = [goroutines EXCEPT ![g] = Idle]
    /\ UNCHANGED <<acls, last, cache>>

\* acl, ok := cache.idCache[id] (or oidCache) of the lookups.
Read(g) ==
    /\ goroutines[g].pc = "read"
    /\ goroutines' = [goroutines EXCEPT
                        ![g].acl = IF goroutines[g].op = "GetFromCacheByID"
                                   THEN LookupByID(cache, goroutines[g].arg).acl
                                   ELSE LookupByOid(cache, goroutines[g].arg).acl,
                        ![g].pc = "RUnlock"]
    /\ UNCHANGED <<acls, last, cache, mu>>

\* cache.RUnlock(); the method returns.
RUnlock(g) ==
    /\ goroutines[g].pc = "RUnlock"
    /\ mu' = [mu EXCEPT !.readers = @ \ {g}]
    /\ goroutines' = [goroutines EXCEPT ![g] = Idle]
    /\ UNCHANGED <<acls, last, cache>>

ConcurrentNext ==
    \E g \in Goroutines :
        \/ \E call \in CacheCalls : Call(g, call)
        \/ Lock(g)
        \/ LockAcquire(g)
        \/ RLock(g)
        \/ EvictLookup(g)
        \/ FirstUpdate(g)
        \/ SecondUpdate(g)
        \/ Unlock(g)
        \/ Read(g)
        \/ RUnlock(g)

CacheConcurrent == ConcurrentInit /\ [][ConcurrentNext]_vars

(***************************************************************************)
(* C17: the statements of a write between Lock and Unlock run with no      *)
(* other goroutine inside the cache: while a writer is inside, no reader   *)
(* and no other writer is, so no lookup runs between the two index         *)
(* updates; and readers do not keep each other out: a goroutine at RLock   *)
(* can go on whenever no writer holds or has announced the lock, whatever  *)
(* the number of readers inside.                                           *)
(***************************************************************************)
InWrite(g) == goroutines[g].pc \in {"lookup", "first", "second", "Unlock"}
InRead(g) == goroutines[g].pc \in {"read", "RUnlock"}

C17_WritesAreAtomic ==
    /\ \A g \in Goroutines : \A h \in Goroutines \ {g} :
          InWrite(g) => (~InWrite(h) /\ ~InRead(h))
    /\ \A g \in Goroutines :
          (goroutines[g].pc = "RLock" /\ mu.writer = NoGoroutine
           /\ mu.pending = NoGoroutine) => ENABLED RLock(g)

\* A writer is between its two index updates while another goroutine waits
\* at RLock for a lookup.
C17_Witness ==
    \E g \in Goroutines : \E h \in Goroutines \ {g} :
        /\ goroutines[g].pc = "second"
        /\ goroutines[g].op = "PutInCache"
        /\ goroutines[h].pc = "RLock"

\* Two readers are inside the cache together.
C17_WitnessTwoReaders ==
    \E g \in Goroutines : \E h \in Goroutines \ {g} : InRead(g) /\ InRead(h)

(***************************************************************************)
(* C18: for a caller let through the gate and 0 <= index <= len(aces),     *)
(* InsertAce succeeds and the entry list becomes                           *)
(* old[0..index) ++ [new] ++ old[index..len): new carries the given sid,   *)
(* permission and granting flag, both audit flags false and this Acl; the  *)
(* length grows by one and the earlier entries keep their content.         *)
(***************************************************************************)
InsertedAt(old, new, index, a, arg) ==
    /\ Len(new) = Len(old) + 1
    /\ SubSeq(new, 1, index) = SubSeq(old, 1, index)
    /\ SubSeq(new, index + 2, Len(new)) = SubSeq(old, index + 1, Len(old))
    /\ new[index + 1] = [id |-> Nil, acl |-> a, permission |-> arg.permission,
                         sid |-> arg.sid, granting |-> arg.granting,
                         succes |-> FALSE, failure |-> FALSE]

C18_InsertPlacesEntry ==
    [][(/\ last'.op = "InsertAce"
        /\ last'.err \notin GateErrors
        /\ 0 <= last'.index
        /\ last'.index <= Len(acls[last'.acl].aces))
       => (/\ last'.err = ErrNone
           /\ InsertedAt(acls[last'.acl].aces, acls'[last'.acl].aces,
                         last'.index, last'.acl, last'.arg)
           /\ \A b \in AclIds \ {last'.acl} : acls'[b] = acls[b])]_vars

\* An entry was inserted in front of the entry the Acl already held.
C18_Witness ==
    /\ last.op = "InsertAce"
    /\ last.err = ErrNone
    /\ last.index = 0
    /\ Len(acls[last.acl].aces) = 2
    /\ acls[last.acl].aces[1].granting = last.arg.granting
    /\ acls[last.acl].aces[2].granting # last.arg.granting

(***************************************************************************)
(* C19: the order of the entries is kept.  A successful DeleteAce(index)   *)
(* removes exactly the entry at index; after a successful InsertAce or     *)
(* DeleteAce the entries that were there before and remain are in the      *)
(* order they were in; GetEntries returns the entries in stored order and  *)
(* changes nothing.                                                        *)
(***************************************************************************)
\* s without its element at position k (from 1).
Without(s, k) == SubSeq(s, 1, k - 1) \o SubSeq(s, k + 1, Len(s))

DeleteFollowsInsert ==
    /\ last.op = "InsertAce"
    /\ last.err = ErrNone
    /\ last'.op = "DeleteAce"
    /\ last'.acl = last.acl
    /\ last'.caller = last.caller
    /\ last'.index = last.index

C20_InsertThenDeleteRestores ==
    [][/\ (last'.op = "InsertAce" /\ last'.err = ErrNone)
            => (/\ verifyIndexExists(acls'[last'.acl], last'.index) = ErrNone
                /\ RemoveAt(acls'[last'.acl].aces, last'.index) = acls[last'.acl].aces)
       /\ DeleteFollowsInsert
            => (/\ last'.err = ErrNone
                /\ acls'[last'.acl].aces = RemoveAt(acls[last'.acl].aces, last.index)
                /\ acls'[last'.acl].aces = Without(acls[last'.acl].aces, last.index + 1))]_vars

\* An entry was inserted in front of another one: the state DeleteAce(0) is
\* called in.
C20_Witness ==
    /\ last.op = "InsertAce"
    /\ last.err = ErrNone
    /\ last.index = 0
    /\ Len(acls[last.acl].aces) = 2
    /\ acls[last.acl].aces[1] # acls[last.acl].aces[2]

(***************************************************************************)
(* C21: index validation.  InsertAce with index < 0 or index > len(aces),  *)
(* and UpdateAce, DeleteAce and UpdateAuditing with index < 0 or           *)
(* index >= len(aces), return an error and leave every Acl as it was; for  *)
(* a caller let through the gate the error is the one of the index check;  *)
(* on an empty Acl every UpdateAce, DeleteAce and UpdateAuditing fails;    *)
(* and verifyIndexExists accepts exactly the indexes 0 .. len(aces)-1.     *)
(***************************************************************************)
IndexedOps == {"UpdateAce", "DeleteAce", "UpdateAuditing"}

\* The index handed to the call falls outside what the mutator accepts.
BadIndex(op, aces, index) ==
    IF op = "InsertAce" THEN index < 0 \/ index > Len(aces)
    ELSE index < 0 \/ index >= Len(aces)

\* The error the index check of the mutator returns for a bad index.
IndexError(op, index) ==
    IF op = "InsertAce" THEN ErrInvalidIndex
    ELSE IF index < 0 THEN ErrIndexNegative
    ELSE ErrIndexTooLarge

C21_BadIndexIsRejected ==
    [][/\ (last'.op \in IndexedOps \cup {"InsertAce"}
           /\ BadIndex(last'.op, acls[last'.acl].aces, last'.index))
            => (/\ last'.err # ErrNone
                /\ acls' = acls
                /\ last'.err \notin GateErrors
                     => last'.err = IndexError(last'.op, last'.index))
       /\ (last'.op \in IndexedOps /\ Len(acls[last'.acl].aces) = 0)
            => (last'.err # ErrNone /\ acls' = acls)
       /\ \A a \in AclIds : \A index \in -1 .. (Len(acls'[a].aces) + 1) :
            (verifyIndexExists(acls'[a], index) = ErrNone)
               <=> (0 <= index /\ index < Len(acls'[a].aces))]_vars

\* The owner asked to update the entry one past the last one of a non-empty
\* list and was refused by the index check.
C21_Witness ==
    /\ last.op = "UpdateAce"
    /\ last.err = ErrIndexTooLarge
    /\ last.index = Len(acls[last.acl].aces)
    /\ last.index > 0

\* The owner asked to delete from an empty list.
C21_WitnessEmpty ==
    /\ last.op = "DeleteAce"
    /\ last.err = ErrIndexTooLarge
    /\ Len(acls[last.acl].aces) = 0

\* InsertAce was refused an index past the end of the list.
C21_WitnessInsert ==
    /\ last.op = "InsertAce"
    /\ last.err = ErrInvalidIndex
    /\ last.index = Len(acls[last.acl].aces) + 1

(***************************************************************************)
(* C22: SetParent with the Acl itself as the new parent fails with the     *)
(* self-parent error (or the gate's error) and leaves the parent as it     *)
(* was, so no Acl is ever its own parent; for a caller let through the     *)
(* gate, SetParent(nil) and SetParent of a different Acl succeed and       *)
(* install the new parent.                                                 *)
(***************************************************************************)
C22_NoSelfParent ==
    /\ \A a \in AclIds : acls[a].parent # a
    /\ [][/\ \A a \in AclIds : acls'[a].parent # a
          /\ (last'.op = "SetParent" /\ last'.arg = last'.acl)
               => (/\ last'.err # ErrNone
                   /\ acls' = acls
                   /\ last'.err \notin GateErrors => last'.err = ErrSelfParent)
          /\ (last'.op = "SetParent" /\ last'.arg # last'.acl
              /\ last'.err \notin GateErrors)
               => (/\ last'.err = ErrNone
                   /\ acls'[last'.acl].parent = last'.arg)]_vars

\* The owner asked an Acl that has the other Acl as parent to become its own
\* parent and was refused.
C22_Witness ==
    /\ last.op = "SetParent"
    /\ last.arg = last.acl
    /\ last.err = ErrSelfParent
    /\ acls[last.acl].parent \in AclIds \ {last.acl}

\* The parent was taken away again by SetParent(nil).
C22_WitnessNil ==
    /\ last.op = "SetParent"
    /\ last.arg = Nil
    /\ last.err = ErrNone
    /\ acls[last.acl].parent = Nil
    /\ \E b \in AclIds \ {last.acl} : acls[b].parent = last.acl

(***************************************************************************)
(* Sids: the two pure functions on Sids, Equals and IsSidLoaded, applied   *)
(* to Sids made by the four constructors.  Init draws the loaded-sids      *)
(* argument a1 was created with; each call records its arguments and what  *)
(* it returned.                                                            *)
(***************************************************************************)
MaxSids == 2

SidPool ==
    { ForPrincipal("alice"), ForAuthority("alice"),
      NewPrincipal("alice"), NewPrincipal("bob"), NewAuthority("alice") }
SidLists == SeqsUpTo(SidPool, MaxSids)

SidsInit ==
    /\ \E loaded \in {NilSids} \cup { SidSlice(l) : l \in SidLists } :
          acls = [a \in AclIds |->
                    IF a = "a1" THEN newAcl(a, a, Nil, loaded, TRUE, S1)
                    ELSE newAcl(a, a, Nil, NilSids, TRUE, S1)]
    /\ last = NoCall
    /\ cache = newDefaultCache
    /\ mu = Unlocked
    /\ goroutines = NoGoroutines

\* One call acl.IsSidLoaded(sids).
CallIsSidLoaded(a, sids) ==
    /\ last' = [op |-> "IsSidLoaded", acl |-> a, sids |-> sids,
                ret |-> IsSidLoaded(acls[a], sids)]
    /\ UNCHANGED <<acls, cacheVars>>

\* One call s.Equals(other).
CallEquals(s, other) ==
    /\ last' = [op |-> "Equals", s |-> s, other |-> other, ret |-> Equals(s, other)]
    /\ UNCHANGED <<acls, cacheVars>>

SidsNext ==
    \/ \E sids \in SidLists : CallIsSidLoaded("a1", sids)
    \/ \E s \in SidPool, other \in SidPool : CallEquals(s, other)

Sids == SidsInit /\ [][SidsNext]_vars

\* Two Sids are of the same concrete kind and carry the same name.
SameSid(s, other) == s.type = other.type /\ s.name = other.name

(***************************************************************************)
(* C23: IsSidLoaded returns true when the requested list is nil or empty   *)
(* and when loadedSids is nil; otherwise it returns true exactly when      *)
(* every requested sid equals (same kind, same name) some sid of           *)
(* loadedSids.                                                             *)
(***************************************************************************)
C23_IsSidLoaded ==
    last.op = "IsSidLoaded" =>
      last.ret = ( \/ acls[last.acl].loaded.isNil
                   \/ Len(last.sids) = 0
                   \/ \A i \in 1..Len(last.sids) :
                        \E j \in 1..Len(acls[last.acl].loaded.sids) :
                           SameSid(last.sids[i], acls[last.acl].loaded.sids[j]) )

\* What does hold: the same statement with "equals" read as the result of
\* the requested sid's own Equals method.
C23_IsSidLoadedByEqualsMethod ==
    last.op = "IsSidLoaded" =>
      last.ret = ( \/ acls[last.acl].loaded.isNil
                   \/ Len(last.sids) = 0
                   \/ \A i \in 1..Len(last.sids) :
                        \E j \in 1..Len(acls[last.acl].loaded.sids) :
                           Equals(last.sids[i], acls[last.acl].loaded.sids[j]) )

(***************************************************************************)
(* C24: for Sids made by the constructors, a.Equals(b) is true exactly     *)
(* when a and b are of the same concrete kind and carry the same name; so  *)
(* Equals is reflexive and symmetric and a principal never equals an       *)
(* authority of the same text.                                             *)
(***************************************************************************)
C24_EqualsIsValueEquality ==
    last.op = "Equals" =>
      /\ last.ret = SameSid(last.s, last.other)
      /\ last.s = last.other => last.ret
      /\ last.ret = Equals(last.other, last.s)

(***************************************************************************)
(* C25: audit trace of one IsGranted call.  With admin=false the audit     *)
(* sink is notified of at most one decision for the whole call, recursion  *)
(* into parents included: (true, the granting entry) on a grant,           *)
(* (false, the first denying entry met) when the call does not grant and   *)
(* met a denying entry, nothing when no entry matched; with admin=true the *)
(* sink is never notified.                                                 *)
(***************************************************************************)
\* The notification for the entry the k-th evaluated pair matched first.
AuditOf(granted, k) ==
    [granted |-> granted, acl |-> Scan(k).acl,
     index |-> FirstOf(acls[Scan(k).acl].aces, last.perms[Scan(k).pi], last.sids[Scan(k).si])]

\* The first evaluated pair that met a denying entry.
FirstDenyingScan ==
    CHOOSE k \in 1..NScans : ScanDenies(k) /\ \A l \in 1..(k - 1) : ~ScanDenies(l)

C25_AtMostOneAudit ==
    Called =>
      IF last.admin THEN last.res.audits = <<>>
      ELSE /\ Len(last.res.audits) <= 1
           /\ last.res.granted => last.res.audits = <<AuditOf(TRUE, NScans)>>
           /\ (~last.res.granted /\ \E k \in 1..NScans : ScanDenies(k))
                => last.res.audits = <<AuditOf(FALSE, FirstDenyingScan)>>
           /\ (\A k \in 1..NScans : ScanMisses(k)) => last.res.audits = <<>>

\* What does hold: with admin=true nothing is notified on any Acl of the
\* chain, a grant is notified last and once, and an Acl is notified of at most
\* one rejection, the first one its scan met.
C25_AuditsPerAcl ==
    Called =>
      /\ last.admin => last.res.audits = <<>>
      /\ \A n \in 1..Len(last.res.audits) :
            last.res.audits[n].granted => n = Len(last.res.audits)
      /\ \A n \in 1..Len(last.res.audits), m \in 1..Len(last.res.audits) :
            last.res.audits[n].acl = last.res.audits[m].acl => n = m
      /\ (\A k \in 1..NScans : ScanMisses(k)) => last.res.audits = <<>>

(***************************************************************************)
(* C26: IsGranted is a pure read.  A call leaves the entries, owner,       *)
(* parent, inheritance flag and loaded sids of the Acl and of every other  *)
(* Acl of the chain as they were, and a call with the arguments of the     *)
(* call before it returns the same (granted, error) and the same trace.    *)
(***************************************************************************)
SameArguments(c, d) ==
    /\ c.acl = d.acl /\ c.perms = d.perms /\ c.sids = d.sids /\ c.admin = d.admin

AclFields == {"id", "oid", "owner", "parent", "aces", "inherits", "loaded"}
AceFields == {"id", "acl", "permission", "sid", "granting", "succes", "failure"}

\* The field of the Acl each mutator is there to change.
TargetOf(op) ==
    CASE op \in {"InsertAce", "UpdateAce", "DeleteAce", "UpdateAuditing"} -> "aces"
      [] op = "SetOwner" -> "owner"
      [] op = "SetParent" -> "parent"
      [] op = "SetEntriesInheriting" -> "inherits"

\* The fields of an entry the mutator may change.
AceTargetOf(op) ==
    IF op = "UpdateAce" THEN {"permission"}
    ELSE IF op = "UpdateAuditing" THEN {"succes", "failure"}
    ELSE {}

\* The lists differ at most at position k (from 1), and there at most in the
\* given fields.
OnlyEntryChanged(old, new, k, fields) ==
    /\ Len(new) = Len(old)
    /\ \A n \in 1..Len(old) :
          \A f \in AceFields : (n # k \/ f \notin fields) => new[n][f] = old[n][f]

\* The two setters UpdateAuditing calls, applied to any entry an Acl holds,
\* change nothing but the two audit flags of that entry.
AuditSettersKeepTheRest ==
    \A a \in AclIds : \A k \in 1..Len(acls[a].aces) :
        \A succes \in BOOLEAN, failure \in BOOLEAN :
            OnlyEntryChanged(acls[a].aces,
                [acls[a].aces EXCEPT ![k] =
                    setAuditFailure(setAuditSuccess(@, succes), failure)],
                k, AceTargetOf("UpdateAuditing"))

C27_MutatorsChangeOnlyTheirTarget ==
    /\ []AuditSettersKeepTheRest
    /\ [][/\ last'.op \in Mutators =>
               /\ \A b \in AclIds \ {last'.acl} : acls'[b] = acls[b]
               /\ \A f \in AclFields \ {TargetOf(last'.op)} :
                     acls'[last'.acl][f] = acls[last'.acl][f]
               /\ last'.err # ErrNone => acls' = acls
          /\ (last'.op \in {"UpdateAce", "UpdateAuditing"} /\ last'.err = ErrNone)
               => OnlyEntryChanged(acls[last'.acl].aces, acls'[last'.acl].aces,
                                   last'.index + 1, AceTargetOf(last'.op))]_vars

\* The owner changed the permission of the second of two entries.
C27_Witness ==
    /\ last.op = "UpdateAce"
    /\ last.err = ErrNone
    /\ last.index = 1
    /\ Len(acls[last.acl].aces) = 2
    /\ acls[last.acl].aces[2].permission = last.arg
    /\ acls[last.acl].aces[1].permission # last.arg

\* The owner handed the Acl to bob while it had a parent and entries.
C27_WitnessOwner ==
    /\ last.op = "SetOwner"
    /\ last.err = ErrNone
    /\ acls[last.acl].owner = S2
    /\ acls[last.acl].parent # Nil
    /\ Len(acls[last.acl].aces) > 0

(***************************************************************************)
(* C28: after any sequence of successful SetParent calls the parent        *)
(* relation is acyclic: following the parent references from any Acl       *)
(* reaches nil, within as many steps as there are Acls.                    *)
(***************************************************************************)
RECURSIVE ReachesNil(_, _, _)
ReachesNil(A, a, steps) ==
    IF a = Nil THEN TRUE
    ELSE IF steps = 0 THEN FALSE
    ELSE ReachesNil(A, A[a].parent, steps - 1)

C28_ParentRelationIsAcyclic ==
    \A a \in AclIds : ReachesNil(acls, a, Cardinality(AclIds))

(***************************************************************************)
(* C29: on every Acl reachable through InsertAce, SetParent and            *)
(* SetEntriesInheriting, every IsGranted call returns a grant, a deny or   *)
(* an error: the recursion into parents enters no Acl twice.               *)
(***************************************************************************)
C29_IsGrantedReturns ==
    \A a \in AclIds, perms \in RepeatPerms, sids \in RepeatSids, admin \in BOOLEAN :
        IsGranted(acls, a, perms, sids, admin).err # FatalStackOverflow

(***************************************************************************)
(* C30: no spurious grant.  IsGranted returns granted=true only if the     *)
(* Acl itself, or an ancestor reached through an unbroken chain of         *)
(* entriesInheriting=true links, holds a granting entry whose permission   *)
(* overlaps a requested permission and whose sid is (same kind, same       *)
(* name) a requested sid; so a call with no permission or no sid, or on a  *)
(* chain without granting entries, never returns true.                     *)
(***************************************************************************)
\* The Acls a request on a can be answered from: a, and the ancestors reached
\* through inheriting links, at most steps links away.
RECURSIVE InheritedFrom(_, _, _)
InheritedFrom(A, a, steps) ==
    IF a = Nil THEN {}
    ELSE IF steps = 0 \/ ~A[a].inherits THEN {a}
    ELSE {a} \cup InheritedFrom(A, A[a].parent, steps - 1)

\* Entry ace grants one of the requested permissions to one of the sids.
GrantsRequest(ace, perms, sids) ==
    /\ ace.granting
    /\ \E i \in 1..Len(perms) : Overlaps(ace.permission, perms[i])
    /\ \E j \in 1..Len(sids) : SameSid(ace.sid, sids[j])

C30_NoSpuriousGrant ==
    (Called /\ last.res.granted) =>
      /\ last.res.err = ErrNone
      /\ Len(last.perms) > 0 /\ Len(last.sids) > 0
      /\ \E b \in InheritedFrom(acls, last.acl, Cardinality(AclIds)) :
            \E k \in 1..Len(acls[b].aces) :
                GrantsRequest(acls[b].aces[k], last.perms, last.sids)

\* The grant came from the parent while the Acl itself holds only a denying
\* entry for another sid.
C30_Witness ==
    /\ Called /\ last.res.granted
    /\ Len(acls[last.acl].aces) = 1
    /\ ~acls[last.acl].aces[1].granting
    /\ acls[last.acl].inherits
    /\ last.res.checked = <<last.acl, acls[last.acl].parent>>

\* A request was refused although a parent that is not inherited from holds
\* a granting entry for it.
C30_WitnessNotInherited ==
    /\ Called /\ ~last.res.granted
    /\ ~acls[last.acl].inherits /\ acls[last.acl].parent # Nil
    /\ \E k \in 1..Len(acls[acls[last.acl].parent].aces) :
          GrantsRequest(acls[acls[last.acl].parent].aces[k], last.perms, last.sids)
    /\ ~Unloaded(last.acl, last.sids)
    /\ NoLocalMatch(last.acl, last.perms, last.sids)

====
